---- MODULE Spec2Model ----
(***************************************************************************)
(* Model of scripts/string_to_hex_converter.py: the pure function          *)
(* string_to_hex and one run of main().                                    *)
(*                                                                         *)
(* A Python str is a sequence of Unicode code points (naturals); a bytes   *)
(* object is a sequence of values 0..255; a hex string (and every string   *)
(* the program builds from one) is a sequence of one-character strings.    *)
(***************************************************************************)
EXTENDS Integers, Sequences, FiniteSets, TLC

(* ------------------------------ bounds --------------------------------- *)
\* longest enumerated input string
MaxLen == 2
\* largest enumerated --padding value
MaxPadding == 6
\* the enumerated --padding values start at -MaxNegPadding
MaxNegPadding == 1

(* --------------------------- program constants ------------------------- *)
\* default of --padding
DefaultPadding == 40
\* the padding of the epilog's last example
ExamplePadding == 32

\* "USDC.axl" and "Hello World", the strings of the docstring and the epilog
USDC_axl == <<85, 83, 68, 67, 46, 97, 120, 108>>
HelloWorld == <<72, 101, 108, 108, 111, 32, 87, 111, 114, 108, 100>>

(* ------------------------------ inputs --------------------------------- *)
\* 'A', 'k' (hex 6b), e-acute (2 bytes), the euro sign (3 bytes), an emoji
\* (4 bytes) and U+DCFF, the lone surrogate sys.argv holds for a raw byte
\* 0xff on the command line
Alphabet == {65, 107, 233, 8364, 128512, 56575}

RECURSIVE SeqsUpTo(_, _)
SeqsUpTo(S, n) ==
    IF n = 0 THEN {<<>>}
    ELSE LET shorter == SeqsUpTo(S, n - 1)
         IN  shorter \cup {Append(s, c) : s \in {t \in shorter : Len(t) = n - 1}, c \in S}

Strings == SeqsUpTo(Alphabet, MaxLen) \cup {USDC_axl, HelloWorld}

PaddingValues == ((0 - MaxNegPadding)..MaxPadding) \cup {ExamplePadding}

FormatChoices == {"simple", "detailed", "python"}

\* a command line: the positional string (or none), the --padding token
\* (absent, an integer literal, or a token int() rejects), the --no-uppercase
\* flag, the --format token (absent, a choice, or another word)
Invocations ==
    {[has_string |-> TRUE, string |-> s, padding_kind |-> pk, padding_value |-> pv,
      no_uppercase |-> nu, format |-> f] :
        s \in Strings, pk \in {"int"}, pv \in PaddingValues, nu \in BOOLEAN,
        f \in FormatChoices \cup {"absent", "bogus"}}
    \cup
    {[has_string |-> hs, string |-> s, padding_kind |-> pk, padding_value |-> 0,
      no_uppercase |-> nu, format |-> f] :
        hs \in {TRUE}, s \in Strings, pk \in {"absent", "bad"}, nu \in BOOLEAN,
        f \in FormatChoices \cup {"absent", "bogus"}}
    \cup
    {[has_string |-> FALSE, string |-> <<>>, padding_kind |-> pk, padding_value |-> pv,
      no_uppercase |-> nu, format |-> f] :
        pk \in {"absent", "int", "bad"}, pv \in {0}, nu \in BOOLEAN,
        f \in FormatChoices \cup {"absent", "bogus"}}

(* ------------------------- str.encode, bytes.hex ----------------------- *)
IsSurrogate(cp) == cp >= 55296 /\ cp <= 57343

\* the UTF-8 bytes of one code point
encode_char(cp) ==
    IF cp < 128 THEN <<cp>>
    ELSE IF cp < 2048 THEN <<192 + (cp \div 64), 128 + (cp % 64)>>
    ELSE IF cp < 65536
        THEN <<224 + (cp \div 4096), 128 + ((cp \div 64) % 64), 128 + (cp % 64)>>
    ELSE <<240 + (cp \div 262144), 128 + ((cp \div 4096) % 64),
           128 + ((cp \div 64) % 64), 128 + (cp % 64)>>

RECURSIVE utf8_bytes(_)
utf8_bytes(s) ==
    IF s = <<>> THEN <<>> ELSE encode_char(Head(s)) \o utf8_bytes(Tail(s))

\* input_string.encode(): UnicodeEncodeError on a surrogate, else the bytes
encode(s) ==
    IF \E i \in 1..Len(s) : IsSurrogate(s[i])
    THEN [raised |-> TRUE, value |-> <<>>]
    ELSE [raised |-> FALSE, value |-> utf8_bytes(s)]

LowerHexDigits ==
    <<"0", "1", "2", "3", "4", "5", "6", "7", "8", "9", "a", "b", "c", "d", "e", "f">>

hex_byte_Swapped(b) == <<LowerHexDigits[(b % 16) + 1], LowerHexDigits[(b \div 16) + 1]>>
hex_byte(b) == <<LowerHexDigits[(b \div 16) + 1], LowerHexDigits[(b % 16) + 1]>>

\* bytes.hex(): two lowercase digits per byte, in byte order
RECURSIVE hex(_)
hex(bs) == IF bs = <<>> THEN <<>> ELSE hex_byte(Head(bs)) \o hex(Tail(bs))

\* str.upper() on the characters a hex string holds
upper_char_Identity(c) == c
upper_char(c) ==
    CASE c = "a" -> "A" [] c = "b" -> "B" [] c = "c" -> "C"
      [] c = "d" -> "D" [] c = "e" -> "E" [] c = "f" -> "F"
      [] OTHER -> c

upper(hs) == [i \in 1..Len(hs) |-> upper_char(hs[i])]

\* '0' * n: empty when n <= 0
Zeros(n) == [i \in 1..n |-> "0"]

(* ----------------------------- string_to_hex --------------------------- *)
pad_Left(hex_string, padding) == Zeros(padding - Len(hex_string)) \o hex_string
pad_Truncating(hex_string, padding) ==
    IF padding >= 0 /\ padding < Len(hex_string)
    THEN SubSeq(hex_string, 1, padding)
    ELSE hex_string \o Zeros(padding - Len(hex_string))
\* f"{hex_string}{'0' * (padding - len(hex_string))}"
pad(hex_string, padding) == hex_string \o Zeros(padding - Len(hex_string))

string_to_hex_RejectNegative(input_string, padding, uppercase) ==
    LET bytes == encode(input_string)
        hex_string == IF uppercase THEN upper(hex(bytes.value)) ELSE hex(bytes.value)
    IN  IF bytes.raised \/ padding < 0
        THEN [raised |-> TRUE, value |-> <<>>]
        ELSE [raised |-> FALSE, value |-> pad(hex_string, padding)]
\* def string_to_hex(input_string, padding=40, uppercase=True)
string_to_hex(input_string, padding, uppercase) ==
    LET bytes == encode(input_string)
        hex_string == IF uppercase THEN upper(hex(bytes.value)) ELSE hex(bytes.value)
    IN  IF bytes.raised
        THEN [raised |-> TRUE, value |-> <<>>]
        ELSE [raised |-> FALSE, value |-> pad(hex_string, padding)]

(* --------------------------------- main -------------------------------- *)
VARIABLES argv, args, pc, result, exc, stdout, stderr, exit_status

vars == <<argv, args, pc, result, exc, stdout, stderr, exit_status>>

\* one printed line: its kind and the values interpolated into it
Line(kind, text, string, num) ==
    [kind |-> kind, text |-> text, string |-> string, num |-> num]

NoArgs == [string |-> <<>>, padding |-> 0, no_uppercase |-> FALSE, format |-> "simple"]

\* argparse accepts the command line
ArgvOK(a) == a.has_string /\ a.padding_kind # "bad" /\ a.format \in FormatChoices \cup {"absent"}

parse_args_ExampleDefault(a) ==
    [string |-> a.string,
     padding |-> IF a.padding_kind = "absent" THEN ExamplePadding ELSE a.padding_value,
     no_uppercase |-> a.no_uppercase,
     format |-> IF a.format = "absent" THEN "simple" ELSE a.format]
\* the namespace parse_args() returns, defaults filled in
parse_args(a) ==
    [string |-> a.string,
     padding |-> IF a.padding_kind = "absent" THEN DefaultPadding ELSE a.padding_value,
     no_uppercase |-> a.no_uppercase,
     format |-> IF a.format = "absent" THEN "simple" ELSE a.format]

Init ==
    /\ argv \in Invocations
    /\ args = NoArgs
    /\ pc = "parse_args"
    /\ result = <<>>
    /\ exc = FALSE
    /\ stdout = <<>>
    /\ stderr = <<>>
    /\ exit_status = -1

\* args = parser.parse_args(), the command line well formed
ParseArgs ==
    /\ pc = "parse_args"
    /\ ArgvOK(argv)
    /\ args' = parse_args(argv)
    /\ pc' = "call"
    /\ UNCHANGED <<argv, result, exc, stdout, stderr, exit_status>>

\* args = parser.parse_args(), the command line malformed: parser.error()
\* writes the usage and the error line to stderr and exits with status 2
ParseArgsError ==
    /\ pc = "parse_args"
    /\ ~ArgvOK(argv)
    /\ stderr' = <<Line("usage", <<>>, <<>>, 0), Line("argparse error", <<>>, <<>>, 0)>>
    /\ exit_status' = 2
    /\ pc' = "exited"
    /\ UNCHANGED <<argv, args, result, exc, stdout>>

CallStringToHex_Swallowing ==
    /\ pc = "call"
    /\ LET r == string_to_hex(args.string, args.padding, ~args.no_uppercase)
       IN  /\ result' = r.value
           /\ exc' = r.raised
           /\ pc' = "print"
    /\ UNCHANGED <<argv, args, stdout, stderr, exit_status>>
\* result = string_to_hex(args.string, args.padding, not args.no_uppercase)
CallStringToHex ==
    /\ pc = "call"
    /\ LET r == string_to_hex(args.string, args.padding, ~args.no_uppercase)
       IN  IF r.raised
           THEN /\ exc' = TRUE
                /\ pc' = "except"
                /\ UNCHANGED result
           ELSE /\ result' = r.value
                /\ pc' = "print"
                /\ UNCHANGED exc
    /\ UNCHANGED <<argv, args, stdout, stderr, exit_status>>

\* print(result); main returns and the interpreter exits with status 0
PrintSimple ==
    /\ pc = "print"
    /\ args.format = "simple"
    /\ stdout' = stdout \o <<Line("plain", result, <<>>, 0)>>
    /\ exit_status' = 0
    /\ pc' = "exited"
    /\ UNCHANGED <<argv, args, result, exc, stderr>>

\* the three prints of the detailed format
PrintDetailed ==
    /\ pc = "print"
    /\ args.format = "detailed"
    /\ stdout' = stdout \o <<Line("Input: ", <<>>, args.string, 0),
                             Line("Hex: ", result, <<>>, 0),
                             Line("Length: ", <<>>, <<>>, Len(result))>>
    /\ exit_status' = 0
    /\ pc' = "exited"
    /\ UNCHANGED <<argv, args, result, exc, stderr>>

\* the snippet print(f'{"<string>".encode().hex().upper():0<padding>}') and
\* the "# Result: " line
PrintPython ==
    /\ pc = "print"
    /\ args.format = "python"
    /\ stdout' = stdout \o <<Line("snippet upper", <<>>, args.string, args.padding),
                             Line("# Result: ", result, <<>>, 0)>>
    /\ exit_status' = 0
    /\ pc' = "exited"
    /\ UNCHANGED <<argv, args, result, exc, stderr>>

Except_StatusTwo ==
    /\ pc = "except"
    /\ stderr' = stderr \o <<Line("Error: ", <<>>, <<>>, 0)>>
    /\ exit_status' = 2
    /\ pc' = "exited"
    /\ UNCHANGED <<argv, args, result, exc, stdout>>
\* except Exception as e: print(f"Error: {e}", file=sys.stderr); sys.exit(1)
Except ==
    /\ pc = "except"
    /\ stderr' = stderr \o <<Line("Error: ", <<>>, <<>>, 0)>>
    /\ exit_status' = 1
    /\ pc' = "exited"
    /\ UNCHANGED <<argv, args, result, exc, stdout>>

Next ==
    \/ ParseArgs
    \/ ParseArgsError
    \/ CallStringToHex
    \/ PrintSimple
    \/ PrintDetailed
    \/ PrintPython
    \/ Except

Spec == Init /\ [][Next]_vars

(* ------------------- vocabulary of the properties ---------------------- *)
\* the call of string_to_hex returned a value
Converted == pc = "print" \/ (pc = "exited" /\ exit_status = 0)

\* the call of string_to_hex was made, whatever it did
Called == pc \in {"print", "except"} \/ (pc = "exited" /\ exit_status # 2)

Max(a, b) == IF a >= b THEN a ELSE b

PrintableAscii(s) == \A i \in 1..Len(s) : s[i] >= 32 /\ s[i] <= 126

Encodable(s) == \A i \in 1..Len(s) : s[i] < 55296 \/ s[i] > 57343

\* the number of UTF-8 bytes of a string, from the code point ranges
RECURSIVE ByteLength(_)
ByteLength(s) ==
    IF s = <<>> THEN 0
    ELSE (IF Head(s) < 128 THEN 1 ELSE IF Head(s) < 2048 THEN 2
          ELSE IF Head(s) < 65536 THEN 3 ELSE 4) + ByteLength(Tail(s))

UpperHexDigits ==
    <<"0", "1", "2", "3", "4", "5", "6", "7", "8", "9", "A", "B", "C", "D", "E", "F">>

\* the hex encoding of the string's bytes in the case the flag asks for
CaseHex(s, uppercase) ==
    LET bs == utf8_bytes(s)
        digits == IF uppercase THEN UpperHexDigits ELSE LowerHexDigits
    IN  [i \in 1..(2 * Len(bs)) |->
            IF i % 2 = 1 THEN digits[(bs[(i + 1) \div 2] \div 16) + 1]
            ELSE digits[(bs[i \div 2] % 16) + 1]]

\* a-f to A-F, every other character unchanged
AFUp(hs) ==
    [i \in 1..Len(hs) |->
        IF \E k \in 11..16 : LowerHexDigits[k] = hs[i]
        THEN UpperHexDigits[CHOOSE k \in 11..16 : LowerHexDigits[k] = hs[i]]
        ELSE hs[i]]

\* bytes.fromhex: either case of digit; -1 for a character that is no digit
HexValue(c) ==
    IF \E k \in 1..16 : LowerHexDigits[k] = c \/ UpperHexDigits[k] = c
    THEN (CHOOSE k \in 1..16 : LowerHexDigits[k] = c \/ UpperHexDigits[k] = c) - 1
    ELSE -1

fromhex(hs) ==
    [i \in 1..(Len(hs) \div 2) |-> 16 * HexValue(hs[2 * i - 1]) + HexValue(hs[2 * i])]

\* bytes.decode(): the code points of well-formed UTF-8; <<-1>> marks a
\* sequence that does not decode
RECURSIVE utf8_decode(_)
utf8_decode(bs) ==
    IF bs = <<>> THEN <<>>
    ELSE LET b == bs[1]
             n == IF b < 128 THEN 1 ELSE IF b < 192 THEN 0 ELSE IF b < 224 THEN 2
                  ELSE IF b < 240 THEN 3 ELSE IF b < 248 THEN 4 ELSE 0
         IN  IF n = 0 \/ Len(bs) < n
                \/ \E j \in 2..n : bs[j] < 128 \/ bs[j] > 191
             THEN <<-1>>
             ELSE LET cp == CASE n = 1 -> b
                              [] n = 2 -> (b - 192) * 64 + (bs[2] - 128)
                              [] n = 3 -> (b - 224) * 4096 + (bs[2] - 128) * 64 + (bs[3] - 128)
                              [] n = 4 -> (b - 240) * 262144 + (bs[2] - 128) * 4096
                                          + (bs[3] - 128) * 64 + (bs[4] - 128)
                  IN  <<cp>> \o utf8_decode(SubSeq(bs, n + 1, Len(bs)))

\* the value of the f-string the python format prints: the hex of the
\* string's bytes, upper-cased, formatted with the spec "0<width>" (fill '0',
\* left aligned); a negative width is no format spec and raises ValueError
EvalSnippet(line) ==
    IF line.num < 0 \/ ~Encodable(line.string)
    THEN [raised |-> TRUE, value |-> <<>>]
    ELSE LET h == upper(hex(utf8_bytes(line.string)))
         IN  [raised |-> FALSE, value |-> h \o Zeros(line.num - Len(h))]

(* ------------------------------ properties ----------------------------- *)

\* C1: for a printable-ASCII string and padding >= 0, the length of
\* string_to_hex(s, padding, True) is max(2 * byte length of s, padding).
C1_Length ==
    (Converted /\ ~args.no_uppercase /\ PrintableAscii(args.string) /\ args.padding >= 0)
        => Len(result) = Max(2 * ByteLength(args.string), args.padding)

\* an ASCII string whose hex is longer than the padding asked for
C1_Witness ==
    /\ Converted /\ ~args.no_uppercase /\ PrintableAscii(args.string)
    /\ args.padding >= 1 /\ args.padding < 2 * Len(args.string)
    /\ Len(result) = 2 * Len(args.string)

\* C2: the result is the case-applied two-digits-per-byte hex encoding of the
\* UTF-8 bytes in its first 2 * byte_length characters, followed only by '0'.
C2_PrefixThenZeros ==
    Converted =>
        LET n == 2 * ByteLength(args.string)
        IN  /\ Len(result) >= n
            /\ SubSeq(result, 1, n) = CaseHex(args.string, ~args.no_uppercase)
            /\ \A i \in (n + 1)..Len(result) : result[i] = "0"

\* a multi-byte string that was padded
C2_Witness ==
    /\ Converted
    /\ ByteLength(args.string) > Len(args.string)
    /\ Len(result) > 2 * ByteLength(args.string)

\* C3: with padding <= 2 * byte_length (zero and negative included) the call
\* raises nothing and returns exactly the case-applied hex encoding;
\* convert("", 0, true) = "" and convert("A", 0, true) = "41".
C3_NoPadNoTruncate ==
    /\ (Called /\ Encodable(args.string) /\ args.padding <= 2 * ByteLength(args.string))
          => (~exc /\ pc # "except"
              /\ result = CaseHex(args.string, ~args.no_uppercase))
    /\ (Called /\ args.string = <<>> /\ args.padding = 0 /\ ~args.no_uppercase)
          => (~exc /\ result = <<>>)
    /\ (Called /\ args.string = <<65>> /\ args.padding = 0 /\ ~args.no_uppercase)
          => (~exc /\ result = <<"4", "1">>)

\* a negative padding and a result longer than it
C3_Witness ==
    /\ Converted /\ args.padding < 0 /\ Len(result) >= 2

\* C5: decoding the first 2 * byte_length characters of the result as hex and
\* the bytes as UTF-8 gives back the input string.
C5_RoundTrip ==
    Converted =>
        utf8_decode(fromhex(SubSeq(result, 1, 2 * ByteLength(args.string)))) = args.string

\* a padded result of a string with a multi-byte character, upper case
C5_Witness ==
    /\ Converted /\ ~args.no_uppercase
    /\ \E i \in 1..Len(args.string) : args.string[i] >= 2048
    /\ Len(result) > 2 * ByteLength(args.string)
    /\ \E i \in 1..Len(result) : result[i] \in {"A", "B", "C", "D", "E", "F"}

\* C6: the uppercase result is the lowercase result with a-f mapped to A-F
\* and nothing else changed; it holds no a-f and has the same length.
C6_UpperOfLower ==
    Converted =>
        LET lower_result == IF args.no_uppercase THEN result
                            ELSE string_to_hex(args.string, args.padding, FALSE).value
            upper_result == IF args.no_uppercase
                            THEN string_to_hex(args.string, args.padding, TRUE).value
                            ELSE result
        IN  /\ upper_result = AFUp(lower_result)
            /\ Len(upper_result) = Len(lower_result)
            /\ \A i \in 1..Len(upper_result) :
                   upper_result[i] \notin {"a", "b", "c", "d", "e", "f"}

\* an uppercase result that holds a letter digit
C6_Witness ==
    /\ Converted /\ ~args.no_uppercase
    /\ \E i \in 1..Len(result) : result[i] \in {"A", "B", "C", "D", "E", "F"}
    /\ Len(result) > 2 * ByteLength(args.string)

HelloWorldHex ==
    <<"4", "8", "6", "5", "6", "c", "6", "c", "6", "f", "2", "0",
      "5", "7", "6", "f", "7", "2", "6", "c", "6", "4">>

IsHelloWorldRun ==
    Converted /\ args.string = HelloWorld /\ args.padding = 32 /\ args.no_uppercase

\* C7 as stated: convert("Hello World", 32, false) is the 22 hex characters
\* padded with 10 zeros to 32 characters, and is the string
\* "48656c6c6f20576f726c6400000000".
C7_Original ==
    IsHelloWorldRun =>
        /\ Len(result) = 32
        /\ result = HelloWorldHex \o Zeros(10)
        /\ result = HelloWorldHex \o <<"0", "0", "0", "0", "0", "0", "0", "0">>

\* C7: convert("Hello World", 32, false) is 48656c6c6f20576f726c64 followed
\* by ten zeros, 32 characters in all.
C7_Amended ==
    IsHelloWorldRun =>
        /\ Len(result) = 32
        /\ result = HelloWorldHex \o <<"0", "0", "0", "0", "0", "0", "0", "0", "0", "0">>

C7_Witness == IsHelloWorldRun /\ pc = "exited" /\ Len(stdout) = 1

OnlyPositional ==
    /\ argv.has_string /\ argv.padding_kind = "absent"
    /\ ~argv.no_uppercase /\ argv.format = "absent"

USDC_axl_Padded ==
    <<"5", "5", "5", "3", "4", "4", "4", "3", "2", "E", "6", "1", "7", "8", "6", "C">>
    \o [i \in 1..24 |-> "0"]

\* C8: with only the positional string the run uses padding 40, upper case
\* and the simple format: once the string is converted it prints exactly
\* string_to_hex(s, 40, True) alone and exits 0; for "USDC.axl" that is
\* 555344432E61786C followed by 24 zeros.
C8_Defaults ==
    /\ (OnlyPositional /\ pc \in {"call", "print", "except", "exited"})
          => args = [string |-> argv.string, padding |-> 40,
                     no_uppercase |-> FALSE, format |-> "simple"]
    /\ (OnlyPositional /\ pc = "exited" /\ Encodable(argv.string))
          => /\ stdout = <<Line("plain", string_to_hex(argv.string, 40, TRUE).value, <<>>, 0)>>
             /\ Len(stdout[1].text) = Max(40, 2 * ByteLength(argv.string))
             /\ stderr = <<>>
             /\ exit_status = 0
    /\ (OnlyPositional /\ pc = "exited" /\ argv.string = USDC_axl)
          => (stdout[1].text = USDC_axl_Padded /\ Len(stdout[1].text) = 40)

C8_Witness ==
    /\ OnlyPositional /\ pc = "exited" /\ argv.string = USDC_axl
    /\ exit_status = 0 /\ Len(stdout) = 1

\* C9 as stated: in the python format, evaluating the printed snippet gives
\* the string of the "# Result:" line, whatever the string, the padding and
\* the --no-uppercase setting. Stated here on the paddings of the contract,
\* padding >= 0; a negative padding makes the snippet's format spec invalid.
C9_SnippetEquivalent ==
    (pc = "exited" /\ exit_status = 0 /\ args.format = "python" /\ args.padding >= 0)
        => /\ Len(stdout) = 2
           /\ EvalSnippet(stdout[1]) = [raised |-> FALSE, value |-> stdout[2].text]

SawError == \E i \in 1..Len(stderr) : stderr[i].kind = "Error: "

\* C4 as stated: every run exits 0 on success and 1 on any error, with an
\* "Error: " message on the error stream, malformed invocations included.
C4_Original ==
    pc = "exited" =>
        \/ (exit_status = 0 /\ stderr = <<>>)
        \/ (exit_status = 1 /\ SawError)

\* C4: a run whose command line parses exits 0 when the conversion succeeds
\* and 1, with one "Error: " message on the error stream, when it raises; a
\* malformed command line is rejected by the argument parser with its usage
\* and error lines on the error stream and status 2, nothing on stdout.
C4_Amended ==
    pc = "exited" =>
        /\ ArgvOK(argv) /\ Encodable(argv.string)
              => (exit_status = 0 /\ stderr = <<>> /\ stdout # <<>>)
        /\ ArgvOK(argv) /\ ~Encodable(argv.string)
              => (exit_status = 1 /\ stderr = <<Line("Error: ", <<>>, <<>>, 0)>>
                  /\ stdout = <<>>)
        /\ ~ArgvOK(argv)
              => (exit_status = 2 /\ ~SawError /\ Len(stderr) = 2 /\ stdout = <<>>)

\* a conversion error reported with status 1
C4_Witness ==
    pc = "exited" /\ ArgvOK(argv) /\ ~Encodable(argv.string) /\ exit_status = 1 /\ SawError

\* C10: nothing is on stdout before the conversion has returned; when
\* string_to_hex raises, in every format stdout stays empty, exactly one
\* "Error: " message goes to the error stream and the status is non-zero;
\* no run both prints a result and reports a conversion error.
C10_ConvertBeforeOutput ==
    /\ stdout # <<>> => (pc = "exited" /\ ~exc /\ exit_status = 0
                         /\ string_to_hex(args.string, args.padding,
                                          ~args.no_uppercase).raised = FALSE)
    /\ (Called /\ ~Encodable(args.string)) => (exc /\ stdout = <<>>)
    /\ exc => stdout = <<>>
    /\ (exc /\ pc = "exited")
          => (stderr = <<Line("Error: ", <<>>, <<>>, 0)>> /\ exit_status > 0)
    /\ ~(stdout # <<>> /\ SawError)

\* a conversion that raised in the detailed format, after the exit
C10_Witness ==
    /\ pc = "exited" /\ exc /\ args.format = "detailed"
    /\ stdout = <<>> /\ SawError /\ exit_status = 1

====
